---- MODULE Spec2Model ----
(***************************************************************************)
(* Record lifecycle engine of discorm/base-driver (src/index.js), driven   *)
(* by the in-memory store of its test driver (src/unnamed/part_000, the    *)
(* class Model: data, hooks, _fetch, _save, _update, _remove,              *)
(* findIterator), and by the class of the test 'placeholders', which       *)
(* keeps the default primitives and the default findIterator of BaseModel. *)
(*                                                                         *)
(* A record is a function from a subset of Keys to integer values; the     *)
(* value Undef stands for JavaScript's undefined, so a key can be absent   *)
(* (no own property) or present with the value undefined.                  *)
(***************************************************************************)
EXTENDS Integers, Sequences, FiniteSets, TLC

\* ------------------------------------------------------------------ bounds
MaxData == 2      \* largest number of stored records
MaxName == 2      \* values of the payload field "name" are 1..MaxName

\* ------------------------------------------------------------------ values
Undef == -1
Keys == {"id", "name"}
Empty == [k \in {} |-> Undef]

\* obj[key] of JavaScript: undefined when the key is not an own property
Get(r, k) == IF k \in DOMAIN r THEN r[k] ELSE Undef

\* ToBoolean of JavaScript on the values of the model
Truthy(v) == v # Undef /\ v # 0

\* one-field object literal {k: v}
Obj(k, v) == [x \in {k} |-> v]

\* BaseModel.set(key) with an object argument: every own entry of d is
\* assigned onto the record, entries of d win; set(undefined) and set({})
\* assign nothing (Empty stands for both)
setPatchLoses(r, d) == [k \in DOMAIN r \cup DOMAIN d |-> IF k \in DOMAIN r THEN r[k] ELSE d[k]]
set(r, d) == [k \in DOMAIN r \cup DOMAIN d |-> IF k \in DOMAIN d THEN d[k] ELSE r[k]]

\* BaseModel.set(key, value) with a string key
setKey(r, k, v) == [x \in DOMAIN r \cup {k} |-> IF x = k THEN v ELSE r[x]]

\* the getter BaseModel.isNew: !this.id
isNewIdAbsentOnly(r) == "id" \notin DOMAIN r
isNew(r) == ~Truthy(Get(r, "id"))

\* BaseModel.build / the constructor: new this(data) runs this.set(data)
build(d) == set(Empty, d)

\* Object.assign({}, a, b) and the spread { ...a, ...b }: b wins
Assign(a, b) == set(set(Empty, a), b)

\* ------------------------------------------------------------- test driver
\* is-subset(v, query) as Model.findIterator uses it: every entry of the
\* query is an entry of v; a falsy query selects everything (Empty here)
isSubset(v, q) == \A k \in DOMAIN q : k \in DOMAIN v /\ v[k] = q[k]

RECURSIVE Filter(_, _)
Filter(s, q) ==
  IF s = <<>> THEN <<>>
  ELSE IF isSubset(Head(s), q) THEN <<Head(s)>> \o Filter(Tail(s), q)
       ELSE Filter(Tail(s), q)

\* positions of the stored records whose id === the record's id
SameId(d, r) == {i \in 1..Len(d) : Get(d[i], "id") = Get(r, "id")}
Min(S) == CHOOSE x \in S : \A y \in S : x <= y

\* Model._fetch: the first stored record with the record's id, or undefined
Model_fetch(d, r) == IF SameId(d, r) = {} THEN Empty ELSE d[Min(SameId(d, r))]

\* Model._save: { id: length + 1, ...this } is pushed and returned
Model_saveRow(d, r) == Assign(Obj("id", Len(d) + 1), r)
Model_save(d, r) == Append(d, Model_saveRow(d, r))

\* Model._update: Object.assign(record[0], this) on the first stored record
\* with the record's id (a TypeError when there is none), then _fetch
Model_updateThrows(d, r) == SameId(d, r) = {}
Model_update(d, r) ==
  LET i == Min(SameId(d, r)) IN [d EXCEPT ![i] = set(d[i], r)]

\* Model._remove: every stored record with the record's id is dropped
RECURSIVE Model_remove(_, _)
Model_remove(d, r) ==
  IF d = <<>> THEN <<>>
  ELSE IF Get(Head(d), "id") # Get(r, "id")
       THEN <<Head(d)>> \o Model_remove(Tail(d), r)
       ELSE Model_remove(Tail(d), r)

\* ------------------------------------------------------------------- state
VARIABLES
  data,    \* Model.data: the stored records, in store order
  heap,    \* the record instances alive; heap[1] is the caller's own record
  trace,   \* Model.hooks since the hook log was cleared, with an entry for
           \* every primitive call too (the names in Primitives); each entry
           \* carries the record instance that emitted it
  op,      \* the operation in flight: its name, arguments and position
  lc,      \* the lifecycle method (save/update/fetch/remove) in flight
  it,      \* the findIterator generator of the operation in flight
  ret,     \* how the last operation settled
  pre,     \* the caller's record and the store when the operation was invoked;
           \* removed: the last lifecycle method on the caller's record was a
           \* remove() that returned it; foc: the query of the findOrCreate
           \* calls that came last, one after another, the first of which
           \* created a record, and that record's id
  calls    \* the save() calls in flight together on the caller's record, in
           \* the order of their invocation (the specification of overlapping
           \* calls, SpecRace); empty when calls are awaited one by one

vars == <<data, heap, trace, op, lc, it, ret, pre, calls>>

IdValues == {Undef} \cup (1..MaxData)
NameValues == 1..MaxName

\* Model.reset(data) as the tests call it: rows with the ids 1..n in order
Stores ==
  UNION {[1..n -> NameValues] : n \in 0..MaxData}
Row(i, v) == [k \in Keys |-> IF k = "id" THEN i ELSE v]
ResetData(f) == [i \in DOMAIN f |-> Row(i, f[i])]

\* the statements of the lifecycle methods that suspend: an emit is named by
\* its event, a primitive call by the primitive
SaveStepsSwapped == <<"validate", "beforeSave", "beforeCreate", "_save", "afterSave", "afterCreate">>
SaveSteps == <<"validate", "beforeCreate", "beforeSave", "_save", "afterSave", "afterCreate">>
UpdateSteps == <<"validate", "beforeUpdate", "beforeSave", "_update", "afterSave", "afterUpdate">>
FetchSteps == <<"beforeFetch", "_fetch", "afterFetch">>
RemoveSteps == <<"beforeRemove", "_remove", "afterRemove">>
Primitives == {"_save", "_update", "_fetch", "_remove"}

Steps(path) ==
  CASE path = "create" -> SaveSteps
    [] path = "update" -> UpdateSteps
    [] path = "fetch" -> FetchSteps
    [] path = "remove" -> RemoveSteps
    [] OTHER -> <<>>

NoLc == [path |-> "none", pc |-> 0, self |-> 0, pending |-> Empty, status |-> "none",
         err |-> "", store |-> <<>>]
NoIt == [state |-> "none", items |-> <<>>, pos |-> 0, pulls |-> 0, cur |-> 0]
NoRet == [kind |-> "none", obj |-> 0, list |-> <<>>, err |-> "", n |-> 0]
NoFoc == [set |-> FALSE, query |-> Empty, id |-> Undef]
NoPre == [rec |-> Empty, data |-> <<>>, removed |-> FALSE, foc |-> NoFoc]
NoOp == [name |-> "none", phase |-> "idle", query |-> Empty, arg |-> Empty, out |-> <<>>]

Init ==
  /\ \E f \in Stores : data = ResetData(f)
  /\ heap = <<build(Empty)>>
  /\ trace = <<>>
  /\ op = NoOp
  /\ lc = NoLc
  /\ it = NoIt
  /\ ret = NoRet
  /\ pre = NoPre
  /\ calls = <<>>

\* --------------------------------------------------------------- lifecycle
\* an entry of the log: the event or primitive, the record instance, and
\* whether the emit or the primitive returned (ok) or threw
Ev(e, self, ok) == [ev |-> e, rec |-> self, ok |-> ok]
Names(tr) == [i \in 1..Len(tr) |-> tr[i].ev]

UnsavedModel(action) == "UnsavedModel_" \o action
EmitError == "EmitError"
TypeError == "TypeError"
RecordNotFound == "RecordNotFound"
NotImplemented(method) == "NotImplemented_" \o method

\* the operations invoked on a class that extends BaseModel and overrides
\* nothing but emit () {} (the class of the test 'placeholders'): its
\* primitives and its findIterator are the defaults of BaseModel, and its
\* emit does nothing
BaseOp(m) == "BaseModel." \o m
BaseMethods == {BaseOp(m) : m \in {"save", "update", "fetch", "remove"}}
BaseDrains == {BaseOp(m) : m \in {"find", "findOne", "count"}}
BaseNames == BaseMethods \cup BaseDrains \cup {BaseOp("findIterator")}

\* the frame of a lifecycle method: the statement it is at (pc, an index
\* into Steps(path)), the record it runs on, the settled value of the
\* primitive's promise, and the store as it was when the method was invoked
Guarded(method, self, e) ==
  [path |-> method, pc |-> 0, self |-> self, pending |-> Empty, status |-> "err",
   err |-> e, store |-> data]
Begun(path, self, fail) ==
  [path |-> path, pc |-> IF fail THEN 1 ELSE 2, self |-> self, pending |-> Empty,
   status |-> IF fail THEN "err" ELSE "run", err |-> IF fail THEN EmitError ELSE "",
   store |-> data]

\* Call with save() taking the create path whatever the record is
CallSaveAlwaysCreates(method, self, patch, h, tr, fail) ==
  LET new == isNew(h[self])
      path == IF method = "save" THEN "create" ELSE method
  IN IF method # "save" /\ new
     THEN /\ lc' = Guarded(method, self, UnsavedModel(method))
          /\ heap' = h
          /\ trace' = tr
     ELSE /\ lc' = Begun(path, self, fail)
          /\ heap' = IF method = "update" THEN [h EXCEPT ![self] = set(h[self], patch)] ELSE h
          /\ trace' = Append(tr, Ev(Steps(path)[1], self, ~fail))

\* Call with the patch of update(data) merged before the isNew guard
CallGuardAfterMerge(method, self, patch, h, tr, fail) ==
  LET merged == IF method = "update" THEN set(h[self], patch) ELSE h[self]
      new == isNew(merged)
      path == IF method = "save" THEN (IF new THEN "create" ELSE "update") ELSE method
  IN IF method # "save" /\ new
     THEN /\ lc' = Guarded(method, self, UnsavedModel(method))
          /\ heap' = [h EXCEPT ![self] = merged]
          /\ trace' = tr
     ELSE /\ lc' = Begun(path, self, fail)
          /\ heap' = [h EXCEPT ![self] = merged]
          /\ trace' = Append(tr, Ev(Steps(path)[1], self, ~fail))

\* Call with validate emitted before the patch of update(data) is merged: a
\* failing validate leaves the record without the patch
CallValidateBeforeMerge(method, self, patch, h, tr, fail) ==
  LET new == isNew(h[self])
      path == IF method = "save" THEN (IF new THEN "create" ELSE "update") ELSE method
  IN IF method # "save" /\ new
     THEN /\ lc' = Guarded(method, self, UnsavedModel(method))
          /\ heap' = h
          /\ trace' = tr
     ELSE /\ lc' = Begun(path, self, fail)
          /\ heap' = IF method = "update" /\ ~fail
                     THEN [h EXCEPT ![self] = set(h[self], patch)] ELSE h
          /\ trace' = Append(tr, Ev(Steps(path)[1], self, ~fail))

\* The synchronous head of save(), update(data), fetch() and remove() on
\* heap h, record self, with the hooks emitted so far tr: the isNew guard,
\* the merge of the patch, and the first emit, which fails or not.
\* save() of a persisted record is update() with no data.
Call(method, self, patch, h, tr, fail) ==
  LET new == isNew(h[self])
      path == IF method = "save" THEN (IF new THEN "create" ELSE "update") ELSE method
  IN IF method # "save" /\ new
     THEN /\ lc' = Guarded(method, self, UnsavedModel(method))
          /\ heap' = h
          /\ trace' = tr
     ELSE /\ lc' = Begun(path, self, fail)
          /\ heap' = IF method = "update" THEN [h EXCEPT ![self] = set(h[self], patch)] ELSE h
          /\ trace' = Append(tr, Ev(Steps(path)[1], self, ~fail))

\* what the record is after the primitive's promise has settled:
\* this.set(await this._x()) for save, update and fetch,
\* this.set('id', undefined) for remove
Resumed(path, r, pending) ==
  IF path = "remove" THEN setKey(r, "id", Undef) ELSE set(r, pending)

\* LcEmit with the emit not awaited: its failure is lost
LcEmitSwallow ==
  /\ op.phase = "lc" /\ lc.status = "run"
  /\ lc.pc <= Len(Steps(lc.path))
  /\ Steps(lc.path)[lc.pc] \notin Primitives
  /\ \E fail \in BOOLEAN :
       LET st == Steps(lc.path)
           last == lc.pc = Len(st)
       IN /\ op.name \in BaseNames => ~fail
          /\ trace' = Append(trace, Ev(st[lc.pc], lc.self, ~fail))
          /\ heap' = IF st[lc.pc - 1] \in Primitives
                     THEN [heap EXCEPT ![lc.self] = Resumed(lc.path, heap[lc.self], lc.pending)]
                     ELSE heap
          /\ lc' = IF last THEN [lc EXCEPT !.status = "ok", !.pc = lc.pc + 1]
                   ELSE [lc EXCEPT !.pc = lc.pc + 1]
  /\ UNCHANGED <<data, op, it, ret, pre, calls>>

\* an emit after a suspension: await this.emit(event); the first emit after
\* the primitive runs in the same turn as the merge of the primitive's result
LcEmit ==
  /\ op.phase = "lc" /\ lc.status = "run"
  /\ lc.pc <= Len(Steps(lc.path))
  /\ Steps(lc.path)[lc.pc] \notin Primitives
  /\ \E fail \in BOOLEAN :
       LET st == Steps(lc.path)
           last == lc.pc = Len(st)
       IN /\ op.name \in BaseNames => ~fail
          /\ trace' = Append(trace, Ev(st[lc.pc], lc.self, ~fail))
          /\ heap' = IF st[lc.pc - 1] \in Primitives
                     THEN [heap EXCEPT ![lc.self] = Resumed(lc.path, heap[lc.self], lc.pending)]
                     ELSE heap
          /\ lc' = IF fail THEN [lc EXCEPT !.status = "err", !.err = EmitError]
                   ELSE IF last THEN [lc EXCEPT !.status = "ok", !.pc = lc.pc + 1]
                   ELSE [lc EXCEPT !.pc = lc.pc + 1]
  /\ UNCHANGED <<data, op, it, ret, pre, calls>>

\* LcPrimitive with the failure of a default primitive caught and dropped
LcPrimitiveCaught ==
  /\ op.phase = "lc" /\ lc.status = "run"
  /\ lc.pc <= Len(Steps(lc.path))
  /\ Steps(lc.path)[lc.pc] \in Primitives
  /\ LET p == Steps(lc.path)[lc.pc]
         r == heap[lc.self]
     IN CASE op.name \in BaseNames ->
               /\ data' = data
               /\ lc' = [lc EXCEPT !.pc = lc.pc + 1]
               /\ trace' = Append(trace, Ev(p, lc.self, FALSE))
          [] op.name \notin BaseNames /\ p = "_save" ->
               /\ data' = Model_save(data, r)
               /\ lc' = [lc EXCEPT !.pc = lc.pc + 1, !.pending = Model_saveRow(data, r)]
               /\ trace' = Append(trace, Ev(p, lc.self, TRUE))
          [] op.name \notin BaseNames /\ p = "_update" ->
               IF Model_updateThrows(data, r)
               THEN /\ data' = data
                    /\ lc' = [lc EXCEPT !.status = "err", !.err = TypeError]
                    /\ trace' = Append(trace, Ev(p, lc.self, FALSE))
               ELSE /\ data' = Model_update(data, r)
                    /\ lc' = [lc EXCEPT !.pc = lc.pc + 1,
                                        !.pending = Model_fetch(Model_update(data, r), r)]
                    /\ trace' = Append(trace, Ev(p, lc.self, TRUE))
          [] op.name \notin BaseNames /\ p = "_fetch" ->
               /\ data' = data
               /\ lc' = [lc EXCEPT !.pc = lc.pc + 1, !.pending = Model_fetch(data, r)]
               /\ trace' = Append(trace, Ev(p, lc.self, TRUE))
          [] op.name \notin BaseNames /\ p = "_remove" ->
               /\ data' = Model_remove(data, r)
               /\ lc' = [lc EXCEPT !.pc = lc.pc + 1]
               /\ trace' = Append(trace, Ev(p, lc.self, TRUE))
  /\ UNCHANGED <<heap, op, it, ret, pre, calls>>

\* the call of the primitive: _save, _update, _fetch or _remove of Model;
\* on the class that overrides none of them, the default of BaseModel, which
\* throws NotImplemented('model.' + primitive)
LcPrimitive ==
  /\ op.phase = "lc" /\ lc.status = "run"
  /\ lc.pc <= Len(Steps(lc.path))
  /\ Steps(lc.path)[lc.pc] \in Primitives
  /\ LET p == Steps(lc.path)[lc.pc]
         r == heap[lc.self]
     IN CASE op.name \in BaseNames ->
               /\ data' = data
               /\ lc' = [lc EXCEPT !.status = "err", !.err = NotImplemented("model." \o p)]
               /\ trace' = Append(trace, Ev(p, lc.self, FALSE))
          [] op.name \notin BaseNames /\ p = "_save" ->
               /\ data' = Model_save(data, r)
               /\ lc' = [lc EXCEPT !.pc = lc.pc + 1, !.pending = Model_saveRow(data, r)]
               /\ trace' = Append(trace, Ev(p, lc.self, TRUE))
          [] op.name \notin BaseNames /\ p = "_update" ->
               IF Model_updateThrows(data, r)
               THEN /\ data' = data
                    /\ lc' = [lc EXCEPT !.status = "err", !.err = TypeError]
                    /\ trace' = Append(trace, Ev(p, lc.self, FALSE))
               ELSE /\ data' = Model_update(data, r)
                    /\ lc' = [lc EXCEPT !.pc = lc.pc + 1,
                                        !.pending = Model_fetch(Model_update(data, r), r)]
                    /\ trace' = Append(trace, Ev(p, lc.self, TRUE))
          [] op.name \notin BaseNames /\ p = "_fetch" ->
               /\ data' = data
               /\ lc' = [lc EXCEPT !.pc = lc.pc + 1, !.pending = Model_fetch(data, r)]
               /\ trace' = Append(trace, Ev(p, lc.self, TRUE))
          [] op.name \notin BaseNames /\ p = "_remove" ->
               /\ data' = Model_remove(data, r)
               /\ lc' = [lc EXCEPT !.pc = lc.pc + 1]
               /\ trace' = Append(trace, Ev(p, lc.self, TRUE))
  /\ UNCHANGED <<heap, op, it, ret, pre, calls>>

\* ------------------------------------------------- operations on one record
InstanceMethods == {"save", "update", "fetch", "remove"}

\* the patches a caller passes to model.update(patch)
Patches ==
  {Empty} \cup {Obj("name", v) : v \in NameValues} \cup {Obj("id", v) : v \in IdValues}

\* the data a caller passes to new Model(data)
BuildData == {Empty} \cup {Obj("name", v) : v \in NameValues}

StartOp(name, phase, query, arg) ==
  /\ op' = [name |-> name, phase |-> phase, query |-> query, arg |-> arg, out |-> <<>>]
  /\ pre' = [rec |-> heap[1], data |-> data, removed |-> pre.removed, foc |-> pre.foc]

\* new Model(d) by the caller, who keeps it as its own record
Build ==
  /\ op.phase = "idle"
  /\ \E d \in BuildData : heap' = <<build(d)>>
  /\ pre' = NoPre
  /\ UNCHANGED <<data, trace, op, lc, it, ret, calls>>

\* model.save(), model.fetch(), model.remove() and model.update(patch) by
\* the caller on its own record
Invoke ==
  /\ op.phase = "idle"
  /\ \E m \in InstanceMethods, patch \in Patches, fail \in BOOLEAN :
       /\ m # "update" => patch = Empty
       /\ m = "save" /\ isNew(heap[1]) => Len(data) < MaxData
       /\ StartOp(m, "lc", Empty, patch)
       /\ Call(m, 1, patch, heap, trace, fail)
  /\ UNCHANGED <<data, it, ret, calls>>

\* the records the test 'placeholders' runs the default primitives on:
\* Model.build({}), and the same after model.id = 1
BaseRecords == {build(Empty), setKey(build(Empty), "id", 1)}

\* model.save(), model.fetch(), model.update() and model.remove() on a record
\* of the class that overrides no primitive
BaseInvoke ==
  /\ op.phase = "idle"
  /\ \E m \in InstanceMethods, r \in BaseRecords :
       /\ StartOp(BaseOp(m), "lc", Empty, Empty)
       /\ Call(m, Len(heap) + 1, Empty, Append(heap, r), trace, FALSE)
  /\ UNCHANGED <<data, it, ret, calls>>

\* the promise of the caller's lifecycle method settles: return this, or
\* the error thrown
InstanceSettle ==
  /\ op.phase = "lc" /\ op.name \in InstanceMethods \cup BaseMethods
  /\ lc.status \in {"ok", "err"}
  /\ ret' = IF lc.status = "ok"
            THEN [NoRet EXCEPT !.kind = "rec", !.obj = lc.self]
            ELSE [NoRet EXCEPT !.kind = "error", !.err = lc.err]
  /\ op' = [op EXCEPT !.phase = "done"]
  /\ UNCHANGED <<data, heap, trace, lc, it, pre, calls>>

\* ------------------------------------------------- operations on the store
\* the queries and the data a caller passes to the static methods
Queries == {Empty} \cup {Obj("name", v) : v \in NameValues}
Data == {Empty} \cup {Obj("name", v) : v \in NameValues}
Ids == 1..MaxData
\* the query { id } of findById, updateById and removeById, which a caller
\* also passes to findOrCreate and createOrUpdate
IdQueries == {Obj("id", i) : i \in Ids}

FindOneOps == {"findOne", "findOrCreate", "createOrUpdate", "updateOne", "removeOne"}
ByIdOps == {"findById", "updateById", "removeById"}
BulkOps == {"update_all", "remove_all"}
\* find(query) and count(query), which drain findIterator(query)
DrainOps == {"find", "count"}
\* the sequences handed to a consumer, who asks for the items one by one and
\* may stop at any point: findIterator(query), Model[Symbol.asyncIterator]()
\* (findIterator({})), updateIterator(query, data), removeIterator(query)
ReadIterOps == {"findIterator", "asyncIterator"}
WriteIterOps == {"updateIterator", "removeIterator"}
IterOps == ReadIterOps \cup WriteIterOps
\* the operations that take a second argument
DataOps == {"findOrCreate", "createOrUpdate", "updateOne", "updateById", "update_all",
            "updateIterator"}
\* the operations that may insert a record
CreateOps == {"create", "findOrCreate", "createOrUpdate"}
UpsertOps == {"findOrCreate", "createOrUpdate"}

\* Model.findIterator(query) has been called: nothing has run yet
FreshIt == [state |-> "fresh", items |-> <<>>, pos |-> 0, pulls |-> 0, cur |-> 0]

\* Model.create(data): this.build(data).save()
Create ==
  /\ op.phase = "idle"
  /\ Len(data) < MaxData
  /\ \E d \in Data, fail \in BOOLEAN :
       /\ StartOp("create", "lc", Empty, d)
       /\ Call("save", Len(heap) + 1, Empty, Append(heap, build(d)), trace, fail)
  /\ UNCHANGED <<data, it, ret, calls>>

\* the static methods that start with findOne(query), with a for await over
\* findIterator / updateIterator / removeIterator, or with it.next() (count):
\* findIterator(query) is called and the first item is asked for
InvokeStatic ==
  /\ op.phase = "idle"
  /\ \E name \in FindOneOps \cup ByIdOps \cup BulkOps \cup DrainOps \cup BaseDrains,
          q \in Queries \cup IdQueries, d \in Data :
       /\ name \notin DataOps => d = Empty
       /\ name \in ByIdOps => q \in IdQueries
       /\ name \notin ByIdOps \cup UpsertOps => q \in Queries
       /\ name \in CreateOps => Len(data) < MaxData \/ Filter(data, q) # <<>>
       /\ StartOp(name, "pull", q, d)
  /\ it' = FreshIt
  /\ UNCHANGED <<data, heap, trace, lc, ret, calls>>

\* InvokeIterator with generators that start to run when they are created
InvokeIteratorEager ==
  /\ op.phase = "idle"
  /\ \E name \in IterOps \cup {BaseOp("findIterator")}, q \in Queries, d \in Data :
       /\ name \notin DataOps => d = Empty
       /\ name \in {"asyncIterator", BaseOp("findIterator")} => q = Empty
       /\ StartOp(name, "pull", q, d)
  /\ it' = FreshIt
  /\ UNCHANGED <<data, heap, trace, lc, ret, calls>>

\* findIterator(query), Model[Symbol.asyncIterator](), updateIterator(query,
\* data) or removeIterator(query) is called and the generator object is
\* handed to the consumer: no statement of a generator body has run
InvokeIterator ==
  /\ op.phase = "idle"
  /\ \E name \in IterOps \cup {BaseOp("findIterator")}, q \in Queries, d \in Data :
       /\ name \notin DataOps => d = Empty
       /\ name \in {"asyncIterator", BaseOp("findIterator")} => q = Empty
       /\ StartOp(name, "held", q, d)
  /\ it' = FreshIt
  /\ UNCHANGED <<data, heap, trace, lc, ret, calls>>

\* Pull with the matches yielded from the last to the first
PullLastFirst ==
  /\ op.phase \in {"pull", "held"}
  /\ it.state \in {"fresh", "open"}
  /\ IF op.name \in BaseNames
     THEN /\ it' = [it EXCEPT !.state = "closed", !.pulls = it.pulls + 1]
          /\ heap' = heap
          /\ op' = [op EXCEPT !.phase = "done"]
          /\ ret' = [NoRet EXCEPT !.kind = "error",
                                  !.err = NotImplemented("Model.findIterator")]
     ELSE LET items == IF it.state = "fresh" THEN Filter(data, op.query) ELSE it.items
          IN /\ IF it.pos < Len(items)
                THEN /\ heap' = Append(heap, build(items[Len(items) - it.pos]))
                     /\ it' = [state |-> "open", items |-> items, pos |-> it.pos + 1,
                               pulls |-> it.pulls + 1, cur |-> Len(heap) + 1]
                ELSE /\ heap' = heap
                     /\ it' = [state |-> "closed", items |-> items, pos |-> it.pos,
                               pulls |-> it.pulls + 1, cur |-> 0]
             /\ op' = [op EXCEPT !.phase = "got"]
             /\ ret' = ret
  /\ UNCHANGED <<data, trace, lc, pre, calls>>

\* Pull with a default findIterator that yields nothing instead of throwing
PullDefaultEmpty ==
  /\ op.phase \in {"pull", "held"}
  /\ it.state \in {"fresh", "open"}
  /\ IF op.name \in BaseNames
     THEN /\ it' = [it EXCEPT !.state = "closed", !.pulls = it.pulls + 1]
          /\ heap' = heap
          /\ op' = [op EXCEPT !.phase = "got"]
          /\ ret' = ret
     ELSE LET items == IF it.state = "fresh" THEN Filter(data, op.query) ELSE it.items
          IN /\ IF it.pos < Len(items)
                THEN /\ heap' = Append(heap, build(items[it.pos + 1]))
                     /\ it' = [state |-> "open", items |-> items, pos |-> it.pos + 1,
                               pulls |-> it.pulls + 1, cur |-> Len(heap) + 1]
                ELSE /\ heap' = heap
                     /\ it' = [state |-> "closed", items |-> items, pos |-> it.pos,
                               pulls |-> it.pulls + 1, cur |-> 0]
             /\ op' = [op EXCEPT !.phase = "got"]
             /\ ret' = ret
  /\ UNCHANGED <<data, trace, lc, pre, calls>>

\* it.next() on the generator of Model.findIterator, asked by the loop of a
\* static method or (phase "held") by the consumer of a sequence: the first
\* call filters Model.data by the query; every call yields this.build(item)
\* for the next item, or completes.  The generator of BaseModel.findIterator
\* throws NotImplemented('Model.findIterator') at this first call, which
\* rejects the promise of whoever asked.  it.items holds the filtered rows by value, where the
\* generator holds references into Model.data: within one operation the two
\* agree on every row not yet yielded, because Data carries no id, so that
\* _update only assigns into the row of the record that was just yielded (or
\* an earlier row with the same id), and _remove replaces Model.data by a new
\* array without touching rows.
Pull ==
  /\ op.phase \in {"pull", "held"}
  /\ it.state \in {"fresh", "open"}
  /\ IF op.name \in BaseNames
     THEN /\ it' = [it EXCEPT !.state = "closed", !.pulls = it.pulls + 1]
          /\ heap' = heap
          /\ op' = [op EXCEPT !.phase = "done"]
          /\ ret' = [NoRet EXCEPT !.kind = "error",
                                  !.err = NotImplemented("Model.findIterator")]
     ELSE LET items == IF it.state = "fresh" THEN Filter(data, op.query) ELSE it.items
          IN /\ IF it.pos < Len(items)
                THEN /\ heap' = Append(heap, build(items[it.pos + 1]))
                     /\ it' = [state |-> "open", items |-> items, pos |-> it.pos + 1,
                               pulls |-> it.pulls + 1, cur |-> Len(heap) + 1]
                ELSE /\ heap' = heap
                     /\ it' = [state |-> "closed", items |-> items, pos |-> it.pos,
                               pulls |-> it.pulls + 1, cur |-> 0]
             /\ op' = [op EXCEPT !.phase = "got"]
             /\ ret' = ret
  /\ UNCHANGED <<data, trace, lc, pre, calls>>

\* FoundOne with findOne written as (await this.find(query))[0]: the generator
\* is drained before the first item is returned
FoundOneDrains ==
  /\ op.phase = "got"
  /\ op.name \in FindOneOps \cup ByIdOps
  /\ LET doc == it.cur
         found == doc # 0
         base == IF op.name \in {"findById", "findOne"} THEN "find"
                 ELSE IF op.name \in {"updateOne", "updateById", "createOrUpdate"} THEN "update"
                 ELSE IF op.name \in {"removeOne", "removeById"} THEN "remove"
                 ELSE "none"
     IN /\ it' = [it EXCEPT !.state = "closed", !.pos = Len(it.items),
                         !.pulls = Len(it.items) + 1]
        /\ IF found /\ base \in {"update", "remove"}
           THEN \* doc.update(data), doc.remove()
                /\ \E fail \in BOOLEAN : Call(base, doc, op.arg, heap, trace, fail)
                /\ op' = [op EXCEPT !.phase = "lc"]
                /\ ret' = ret
           ELSE IF ~found /\ op.name \in CreateOps
           THEN \* this.create(Object.assign({}, data, query)) of findOrCreate,
                \* this.create(Object.assign({}, query, data)) of createOrUpdate
                /\ \E fail \in BOOLEAN :
                     Call("save", Len(heap) + 1, Empty,
                          Append(heap, build(IF op.name = "findOrCreate"
                                             THEN Assign(op.arg, op.query)
                                             ELSE Assign(op.query, op.arg))),
                          trace, fail)
                /\ op' = [op EXCEPT !.phase = "lc"]
                /\ ret' = ret
           ELSE \* return doc; return; throw new RecordNotFound()
                /\ ret' = IF found THEN [NoRet EXCEPT !.kind = "rec", !.obj = doc]
                          ELSE IF op.name \in ByIdOps
                          THEN [NoRet EXCEPT !.kind = "error", !.err = RecordNotFound]
                          ELSE [NoRet EXCEPT !.kind = "empty"]
                /\ op' = [op EXCEPT !.phase = "done"]
                /\ UNCHANGED <<heap, trace, lc>>
  /\ UNCHANGED <<data, pre, calls>>

\* FoundOne with findById, updateById and removeById returning undefined when
\* nothing is found
FoundOneByIdEmpty ==
  /\ op.phase = "got"
  /\ op.name \in FindOneOps \cup ByIdOps
  /\ LET doc == it.cur
         found == doc # 0
         base == IF op.name \in {"findById", "findOne"} THEN "find"
                 ELSE IF op.name \in {"updateOne", "updateById", "createOrUpdate"} THEN "update"
                 ELSE IF op.name \in {"removeOne", "removeById"} THEN "remove"
                 ELSE "none"
     IN /\ it' = [it EXCEPT !.state = "closed"]
        /\ IF found /\ base \in {"update", "remove"}
           THEN \* doc.update(data), doc.remove()
                /\ \E fail \in BOOLEAN : Call(base, doc, op.arg, heap, trace, fail)
                /\ op' = [op EXCEPT !.phase = "lc"]
                /\ ret' = ret
           ELSE IF ~found /\ op.name \in CreateOps
           THEN \* this.create(Object.assign({}, data, query)) of findOrCreate,
                \* this.create(Object.assign({}, query, data)) of createOrUpdate
                /\ \E fail \in BOOLEAN :
                     Call("save", Len(heap) + 1, Empty,
                          Append(heap, build(IF op.name = "findOrCreate"
                                             THEN Assign(op.arg, op.query)
                                             ELSE Assign(op.query, op.arg))),
                          trace, fail)
                /\ op' = [op EXCEPT !.phase = "lc"]
                /\ ret' = ret
           ELSE \* return doc; return; throw new RecordNotFound()
                /\ ret' = IF found THEN [NoRet EXCEPT !.kind = "rec", !.obj = doc]
                          ELSE [NoRet EXCEPT !.kind = "empty"]
                /\ op' = [op EXCEPT !.phase = "done"]
                /\ UNCHANGED <<heap, trace, lc>>
  /\ UNCHANGED <<data, pre, calls>>

\* findOne: "for await (const model of ...) return model" leaves the loop at
\* the first item, which closes the generator; with no item it returns
\* undefined. Then the caller of findOne goes on with the document.
FoundOne ==
  /\ op.phase = "got"
  /\ op.name \in FindOneOps \cup ByIdOps
  /\ LET doc == it.cur
         found == doc # 0
         base == IF op.name \in {"findById", "findOne"} THEN "find"
                 ELSE IF op.name \in {"updateOne", "updateById", "createOrUpdate"} THEN "update"
                 ELSE IF op.name \in {"removeOne", "removeById"} THEN "remove"
                 ELSE "none"
     IN /\ it' = [it EXCEPT !.state = "closed"]
        /\ IF found /\ base \in {"update", "remove"}
           THEN \* doc.update(data), doc.remove()
                /\ \E fail \in BOOLEAN : Call(base, doc, op.arg, heap, trace, fail)
                /\ op' = [op EXCEPT !.phase = "lc"]
                /\ ret' = ret
           ELSE IF ~found /\ op.name \in CreateOps
           THEN \* this.create(Object.assign({}, data, query)) of findOrCreate,
                \* this.create(Object.assign({}, query, data)) of createOrUpdate
                /\ \E fail \in BOOLEAN :
                     Call("save", Len(heap) + 1, Empty,
                          Append(heap, build(IF op.name = "findOrCreate"
                                             THEN Assign(op.arg, op.query)
                                             ELSE Assign(op.query, op.arg))),
                          trace, fail)
                /\ op' = [op EXCEPT !.phase = "lc"]
                /\ ret' = ret
           ELSE \* return doc; return; throw new RecordNotFound()
                /\ ret' = IF found THEN [NoRet EXCEPT !.kind = "rec", !.obj = doc]
                          ELSE IF op.name \in ByIdOps
                          THEN [NoRet EXCEPT !.kind = "error", !.err = RecordNotFound]
                          ELSE [NoRet EXCEPT !.kind = "empty"]
                /\ op' = [op EXCEPT !.phase = "done"]
                /\ UNCHANGED <<heap, trace, lc>>
  /\ UNCHANGED <<data, pre, calls>>

\* the promise of create, findOrCreate, createOrUpdate, updateOne,
\* updateById, removeOne or removeById settles with its lifecycle method
OneSettle ==
  /\ op.phase = "lc" /\ op.name \in {"create"} \cup FindOneOps \cup ByIdOps
  /\ lc.status \in {"ok", "err"}
  /\ ret' = IF lc.status = "ok"
            THEN [NoRet EXCEPT !.kind = "rec", !.obj = lc.self]
            ELSE [NoRet EXCEPT !.kind = "error", !.err = lc.err]
  /\ op' = [op EXCEPT !.phase = "done"]
  /\ UNCHANGED <<data, heap, trace, lc, it, pre, calls>>

\* FindItem with every item refreshed by item.fetch() before it is kept
FindItemFetches ==
  /\ op.phase = "got"
  /\ op.name \in DrainOps \cup ReadIterOps
  /\ IF it.cur # 0
     THEN /\ op' = [op EXCEPT !.phase = IF op.name \in DrainOps THEN "pull" ELSE "held",
                              !.out = Append(op.out, it.cur)]
          /\ trace' = trace \o <<Ev("beforeFetch", it.cur, TRUE), Ev("_fetch", it.cur, TRUE),
                                 Ev("afterFetch", it.cur, TRUE)>>
          /\ ret' = ret
     ELSE /\ op' = [op EXCEPT !.phase = "done"]
          /\ trace' = trace
          /\ ret' = IF op.name = "count"
                    THEN [NoRet EXCEPT !.kind = "count", !.n = Len(op.out)]
                    ELSE [NoRet EXCEPT !.kind = "list", !.list = op.out]
  /\ UNCHANGED <<data, heap, lc, it, pre, calls>>

\* FindItem with count incremented for the answer that reports done too
FindItemCountsDone ==
  /\ op.phase = "got"
  /\ op.name \in DrainOps \cup ReadIterOps
  /\ IF it.cur # 0
     THEN /\ op' = [op EXCEPT !.phase = IF op.name \in DrainOps THEN "pull" ELSE "held",
                              !.out = Append(op.out, it.cur)]
          /\ ret' = ret
     ELSE /\ op' = [op EXCEPT !.phase = "done"]
          /\ ret' = IF op.name = "count"
                    THEN [NoRet EXCEPT !.kind = "count", !.n = Len(op.out) + 1]
                    ELSE [NoRet EXCEPT !.kind = "list", !.list = op.out]
  /\ UNCHANGED <<data, heap, trace, lc, it, pre, calls>>

\* find, count, or the consumer of findIterator got an answer from the
\* generator: items.push(item) / count++ / the consumer keeps the item and
\* the next one is asked for (by the loop, or when the consumer chooses to);
\* or the generator is done and find returns items, count returns count, the
\* consumer has its items
FindItem ==
  /\ op.phase = "got"
  /\ op.name \in DrainOps \cup ReadIterOps
  /\ IF it.cur # 0
     THEN /\ op' = [op EXCEPT !.phase = IF op.name \in DrainOps THEN "pull" ELSE "held",
                              !.out = Append(op.out, it.cur)]
          /\ ret' = ret
     ELSE /\ op' = [op EXCEPT !.phase = "done"]
          /\ ret' = IF op.name = "count"
                    THEN [NoRet EXCEPT !.kind = "count", !.n = Len(op.out)]
                    ELSE [NoRet EXCEPT !.kind = "list", !.list = op.out]
  /\ UNCHANGED <<data, heap, trace, lc, it, pre, calls>>

\* updateIterator / removeIterator got an item from findIterator:
\* "yield await item.update(data)", "yield await item.remove()"; or
\* findIterator is done, and so are the generator and the loop of
\* update(query, data) / remove(query), which returns items
BulkItem ==
  /\ op.phase = "got"
  /\ op.name \in BulkOps \cup WriteIterOps
  /\ IF it.cur # 0
     THEN /\ \E fail \in BOOLEAN :
               Call(IF op.name \in {"update_all", "updateIterator"} THEN "update" ELSE "remove",
                    it.cur, op.arg, heap, trace, fail)
          /\ op' = [op EXCEPT !.phase = "lc"]
          /\ ret' = ret
     ELSE /\ ret' = [NoRet EXCEPT !.kind = "list", !.list = op.out]
          /\ op' = [op EXCEPT !.phase = "done"]
          /\ UNCHANGED <<heap, trace, lc>>
  /\ UNCHANGED <<data, it, pre, calls>>

\* BulkSettle with a failed item skipped and the loop going on
BulkSettleSkipsFailed ==
  /\ op.phase = "lc" /\ op.name \in BulkOps \cup WriteIterOps
  /\ lc.status \in {"ok", "err"}
  /\ IF lc.status = "ok"
     THEN /\ op' = [op EXCEPT !.phase = IF op.name \in BulkOps THEN "pull" ELSE "held",
                              !.out = Append(op.out, lc.self)]
          /\ ret' = ret
          /\ it' = it
     ELSE /\ op' = [op EXCEPT !.phase = IF op.name \in BulkOps THEN "pull" ELSE "held"]
          /\ ret' = ret
          /\ it' = it
  /\ UNCHANGED <<data, heap, trace, lc, pre, calls>>

\* the item's lifecycle method settled inside updateIterator / removeIterator:
\* the record is yielded; update(query, data) / remove(query) do
\* items.push(item) and ask for the next item, the consumer of the sequence
\* keeps it and asks for the next when it chooses to; or the error leaves
\* the generator and the loop
BulkSettle ==
  /\ op.phase = "lc" /\ op.name \in BulkOps \cup WriteIterOps
  /\ lc.status \in {"ok", "err"}
  /\ IF lc.status = "ok"
     THEN /\ op' = [op EXCEPT !.phase = IF op.name \in BulkOps THEN "pull" ELSE "held",
                              !.out = Append(op.out, lc.self)]
          /\ ret' = ret
          /\ it' = it
     ELSE /\ op' = [op EXCEPT !.phase = "done"]
          /\ ret' = [NoRet EXCEPT !.kind = "error", !.err = lc.err]
          /\ it' = [it EXCEPT !.state = "closed"]
  /\ UNCHANGED <<data, heap, trace, lc, pre, calls>>

\* the consumer of a sequence stops asking (it leaves its loop, or drops the
\* generator): it has the items it pulled so far
ConsumerStop ==
  /\ op.phase = "held"
  /\ op' = [op EXCEPT !.phase = "done"]
  /\ ret' = [NoRet EXCEPT !.kind = "list", !.list = op.out]
  /\ it' = [it EXCEPT !.state = "closed"]
  /\ UNCHANGED <<data, heap, trace, lc, pre, calls>>

\* the caller has looked at the outcome: it keeps its own record or takes a
\* returned one in its place, drops the other instances, and clears the hook
\* log (Model.hooks = [], as the tests do between two operations)
Returned ==
  IF ret.kind = "rec" THEN {ret.obj}
  ELSE IF ret.kind = "list" THEN {ret.list[i] : i \in 1..Len(ret.list)}
  ELSE {}

Observe ==
  /\ op.phase = "done"
  /\ \E o \in {1} \cup Returned :
       /\ heap' = <<heap[o]>>
       /\ pre' = [NoPre EXCEPT !.removed =
                    /\ o = 1
                    /\ \/ op.name = "remove" /\ ret.kind = "rec"
                       \/ op.name \notin InstanceMethods /\ pre.removed,
                                !.foc =
                    IF op.name = "findOrCreate" /\ ret.kind = "rec" /\ lc.path = "create"
                    THEN [set |-> TRUE, query |-> op.query, id |-> Get(heap[ret.obj], "id")]
                    ELSE IF op.name = "findOrCreate" /\ ret.kind = "rec"
                            /\ pre.foc.set /\ pre.foc.query = op.query
                    THEN pre.foc
                    ELSE NoFoc]
  /\ trace' = <<>>
  /\ op' = NoOp
  /\ lc' = NoLc
  /\ it' = NoIt
  /\ ret' = NoRet
  /\ UNCHANGED <<data, calls>>

Next ==
  \/ Build
  \/ Invoke
  \/ BaseInvoke
  \/ LcEmit
  \/ LcPrimitive
  \/ InstanceSettle
  \/ Create
  \/ InvokeStatic
  \/ InvokeIterator
  \/ Pull
  \/ FoundOne
  \/ OneSettle
  \/ FindItem
  \/ BulkItem
  \/ BulkSettle
  \/ ConsumerStop
  \/ Observe

Spec == Init /\ [][Next]_vars

\* ------------------------------------------- overlapping calls of save()
\* model.save() called again on the caller's record while earlier calls of
\* it are suspended at an await: nothing in BaseModel serialises them
MaxCalls == 2      \* largest number of save() calls in flight together

\* the frame of one save() call: as the frame of a lifecycle method, with the
\* statements it has run (log), whether it has merged the result of its
\* primitive into the record (merged), and whether it was invoked before any
\* call in flight had done so (racing)
SaveCall(path, fail, racing) ==
  [path |-> path, pc |-> IF fail THEN 1 ELSE 2, pending |-> Empty,
   status |-> IF fail THEN "err" ELSE "run", err |-> IF fail THEN EmitError ELSE "",
   log |-> <<Steps(path)[1]>>, merged |-> FALSE, racing |-> racing]

\* create-path calls that have yet to store their row
Unsaved == {c \in 1..Len(calls) : /\ calls[c].path = "create"
                                  /\ calls[c].status = "run" /\ calls[c].pc <= 4}

RaceInit ==
  /\ \E f \in Stores : data = ResetData(f)
  /\ \E d \in BuildData : heap = <<build(d)>>
  /\ trace = <<>>
  /\ op = NoOp
  /\ lc = NoLc
  /\ it = NoIt
  /\ ret = NoRet
  /\ pre = [NoPre EXCEPT !.rec = heap[1], !.data = data]
  /\ calls = <<>>

\* the synchronous head of model.save(): the routing by isNew, then the
\* first emit, which fails or not
RaceSave ==
  /\ Len(calls) < MaxCalls
  /\ \E fail \in BOOLEAN :
       LET new == isNew(heap[1])
           path == IF new THEN "create" ELSE "update"
           racing == \A k \in 1..Len(calls) : ~calls[k].merged
       IN /\ new /\ ~fail => Len(data) + Cardinality(Unsaved) < MaxData
          /\ calls' = Append(calls, SaveCall(path, fail, racing))
          /\ trace' = Append(trace, Ev(Steps(path)[1], 1, ~fail))
  /\ UNCHANGED <<data, heap, op, lc, it, ret, pre>>

\* an emit of one of the calls after a suspension; the first emit after the
\* primitive runs in the same turn as the merge of the primitive's result
RaceEmit ==
  \E c \in 1..Len(calls), fail \in BOOLEAN :
    LET f == calls[c]
        st == Steps(f.path)
        last == f.pc = Len(st)
        merges == st[f.pc - 1] \in Primitives
    IN /\ f.status = "run" /\ f.pc <= Len(st)
       /\ st[f.pc] \notin Primitives
       /\ trace' = Append(trace, Ev(st[f.pc], 1, ~fail))
       /\ heap' = IF merges
                  THEN [heap EXCEPT ![1] = Resumed(f.path, heap[1], f.pending)]
                  ELSE heap
       /\ calls' = [calls EXCEPT ![c] =
                      IF fail
                      THEN [f EXCEPT !.status = "err", !.err = EmitError,
                                     !.merged = f.merged \/ merges,
                                     !.log = Append(f.log, st[f.pc])]
                      ELSE [f EXCEPT !.status = IF last THEN "ok" ELSE "run",
                                     !.merged = f.merged \/ merges,
                                     !.pc = f.pc + 1, !.log = Append(f.log, st[f.pc])]]
       /\ UNCHANGED <<data, op, lc, it, ret, pre>>

\* RacePrimitive with the routing of save() evaluated again when the call
\* resumes: a call that took the create path updates a record that another
\* call has persisted meanwhile
RacePrimitiveRechecks ==
  \E c \in 1..Len(calls) :
    LET f == calls[c]
        st == Steps(f.path)
        r == heap[1]
        p == IF f.status = "run" /\ f.pc <= Len(st) /\ st[f.pc] = "_save" /\ ~isNew(r)
             THEN "_update" ELSE st[f.pc]
    IN /\ f.status = "run" /\ f.pc <= Len(st)
       /\ st[f.pc] \in Primitives
       /\ IF p = "_save"
          THEN /\ data' = Model_save(data, r)
               /\ calls' = [calls EXCEPT ![c] =
                              [f EXCEPT !.pc = f.pc + 1, !.pending = Model_saveRow(data, r),
                                        !.log = Append(f.log, p)]]
               /\ trace' = Append(trace, Ev(p, 1, TRUE))
          ELSE IF Model_updateThrows(data, r)
          THEN /\ data' = data
               /\ calls' = [calls EXCEPT ![c] =
                              [f EXCEPT !.status = "err", !.err = TypeError,
                                        !.log = Append(f.log, p)]]
               /\ trace' = Append(trace, Ev(p, 1, FALSE))
          ELSE /\ data' = Model_update(data, r)
               /\ calls' = [calls EXCEPT ![c] =
                              [f EXCEPT !.pc = f.pc + 1,
                                        !.pending = Model_fetch(Model_update(data, r), r),
                                        !.log = Append(f.log, p)]]
               /\ trace' = Append(trace, Ev(p, 1, TRUE))
       /\ UNCHANGED <<heap, op, lc, it, ret, pre>>

\* the primitive of one of the calls, _save on the create path and _update
\* on the update path, on the record as it is when the call resumes
RacePrimitive ==
  \E c \in 1..Len(calls) :
    LET f == calls[c]
        st == Steps(f.path)
        r == heap[1]
        p == st[f.pc]
    IN /\ f.status = "run" /\ f.pc <= Len(st)
       /\ st[f.pc] \in Primitives
       /\ IF p = "_save"
          THEN /\ data' = Model_save(data, r)
               /\ calls' = [calls EXCEPT ![c] =
                              [f EXCEPT !.pc = f.pc + 1, !.pending = Model_saveRow(data, r),
                                        !.log = Append(f.log, p)]]
               /\ trace' = Append(trace, Ev(p, 1, TRUE))
          ELSE IF Model_updateThrows(data, r)
          THEN /\ data' = data
               /\ calls' = [calls EXCEPT ![c] =
                              [f EXCEPT !.status = "err", !.err = TypeError,
                                        !.log = Append(f.log, p)]]
               /\ trace' = Append(trace, Ev(p, 1, FALSE))
          ELSE /\ data' = Model_update(data, r)
               /\ calls' = [calls EXCEPT ![c] =
                              [f EXCEPT !.pc = f.pc + 1,
                                        !.pending = Model_fetch(Model_update(data, r), r),
                                        !.log = Append(f.log, p)]]
               /\ trace' = Append(trace, Ev(p, 1, TRUE))
       /\ UNCHANGED <<heap, op, lc, it, ret, pre>>

RaceNext ==
  \/ RaceSave
  \/ RaceEmit
  \/ RacePrimitive

SpecRace == RaceInit /\ [][RaceNext]_vars

\* ----------------------------------------------------------------- claims
CreateTrace == <<"validate", "beforeCreate", "beforeSave", "_save", "afterSave", "afterCreate">>
UpdateTrace == <<"validate", "beforeUpdate", "beforeSave", "_update", "afterSave", "afterUpdate">>
RemoveTrace == <<"beforeRemove", "_remove", "afterRemove">>
FetchTrace == <<"beforeFetch", "_fetch", "afterFetch">>

IsPrefix(s, t) == Len(s) <= Len(t) /\ \A i \in 1..Len(s) : s[i] = t[i]
Count(tr, e) == Cardinality({i \in 1..Len(tr) : tr[i].ev = e})
Persisted(r) == "id" \in DOMAIN r /\ r["id"] # Undef /\ r["id"] # 0
DoneOp(name) == op.phase = "done" /\ op.name = name

\* C1: save() on a New record, when no hook and no primitive fails and _save
\* returns fields with an identity, emits exactly validate, beforeCreate,
\* beforeSave, afterSave, afterCreate in that order with the one _save call
\* between beforeSave and afterSave, nothing of the update, remove or fetch
\* sequences, and returns the same instance, now Persisted.
C1_SaveNew ==
  (/\ DoneOp("save")
   /\ ~Persisted(pre.rec)
   /\ ret.kind = "rec"
   /\ Persisted(lc.pending))
  => /\ Names(trace) = CreateTrace
     /\ \A i \in 1..Len(trace) : trace[i].rec = 1
     /\ ret.obj = 1
     /\ Persisted(heap[1])
     /\ Len(data) = Len(pre.data) + 1

C1_Witness ==
  /\ DoneOp("save")
  /\ ~Persisted(pre.rec)
  /\ ret.kind = "rec"
  /\ Persisted(lc.pending)
  /\ Persisted(heap[1])

C3_UnsavedRejected ==
  (op.name \in {"fetch", "update", "remove"} /\ op.phase \in {"lc", "done"}
     /\ ~Persisted(pre.rec))
  => /\ lc.status = "err"
     /\ lc.err = "UnsavedModel_" \o op.name
     /\ trace = <<>>
     /\ heap[1] = pre.rec
     /\ data = pre.data
     /\ op.phase = "done" => ret.kind = "error" /\ ret.err = lc.err

C3_Witness ==
  /\ DoneOp("update")
  /\ ~Persisted(pre.rec)
  /\ op.arg = Obj("id", 1)
  /\ ret.err = "UnsavedModel_update"

\* C4: remove() on a Persisted record emits exactly beforeRemove then
\* afterRemove around one _remove call and clears id, so that the record is
\* New when afterRemove is emitted and when remove() returns; a following
\* save() of that record runs the create path (_save, the create hook
\* sequence) and makes it Persisted again.
C4_RemoveThenSave ==
  /\ (op.name = "remove" /\ op.phase \in {"lc", "done"} /\ Persisted(pre.rec))
     => /\ IsPrefix(Names(trace), RemoveTrace)
        /\ Count(trace, "afterRemove") = 1 => ~Persisted(heap[1])
        /\ op.phase = "done" /\ ret.kind = "rec"
             => Names(trace) = RemoveTrace /\ ret.obj = 1 /\ ~Persisted(heap[1])
  /\ (DoneOp("save") /\ pre.removed /\ ret.kind = "rec")
     => /\ Names(trace) = CreateTrace
        /\ Persisted(heap[1])

\* the patch laid over a record, the patch's values winning
Overlay(r, d) == [k \in DOMAIN r \cup DOMAIN d |-> IF k \in DOMAIN d THEN d[k] ELSE r[k]]

\* C5: update(patch) on a Persisted record merges the patch into the record
\* first (patch values win), then emits validate, beforeUpdate, beforeSave,
\* calls _update once, merges the returned fields, then emits afterSave and
\* afterUpdate, in exactly that order; without a patch nothing is merged
\* before validate and the rest is the same.
C5_UpdateOrder ==
  (op.name = "update" /\ op.phase \in {"lc", "done"} /\ Persisted(pre.rec))
  => /\ trace # <<>>
     /\ IsPrefix(Names(trace), UpdateTrace)
     /\ \A i \in 1..Len(trace) : trace[i].rec = 1
     /\ Count(trace, "afterSave") = 0 => heap[1] = Overlay(pre.rec, op.arg)
     /\ Count(trace, "afterSave") = 1
          => heap[1] = Overlay(Overlay(pre.rec, op.arg), lc.pending)
     /\ op.arg = Empty /\ Count(trace, "afterSave") = 0 => heap[1] = pre.rec
     /\ lc.status = "ok" => Names(trace) = UpdateTrace
     /\ op.phase = "done" /\ ret.kind = "rec" => lc.status = "ok" /\ ret.obj = 1

C5_Witness ==
  /\ DoneOp("update")
  /\ Persisted(pre.rec)
  /\ ret.kind = "rec"
  /\ \E k \in DOMAIN pre.rec \cap DOMAIN op.arg :
       /\ pre.rec[k] # op.arg[k]
       /\ heap[1][k] = op.arg[k]
  /\ Names(trace) = UpdateTrace

BulkTrace == IF op.name = "update_all" THEN UpdateTrace ELSE RemoveTrace

\* C7: during and after update(query, data) and remove(query) the log is,
\* in findIterator's encounter order, one complete per-record sequence (the
\* 5 update events or beforeRemove/afterRemove, with the primitive call
\* inside) for every record already collected, followed by at most one
\* sequence under way, that of the record pulled last; nothing of a later
\* record is logged before the previous record's last event, and on
\* completion there is one complete sequence per matched record.
C7_BulkSequential ==
  (op.name \in BulkOps /\ op.phase \in {"pull", "got", "lc", "done"})
  => LET E == BulkTrace
         L == Len(E)
         k == Len(op.out)
         matched == Filter(pre.data, op.query)
     IN /\ Len(trace) >= k * L
        /\ Len(trace) <= (k + 1) * L
        /\ \A i \in 1..Len(trace) :
             /\ trace[i].ev = E[((i - 1) % L) + 1]
             /\ trace[i].rec = ((i - 1) \div L) + 2
        /\ \A j \in 1..k : op.out[j] = j + 1
        /\ op.phase = "got" /\ it.cur # 0
             => /\ it.items = matched
                /\ it.cur = k + 2
                /\ heap[it.cur] = build(matched[k + 1])
                /\ Len(trace) = k * L
        /\ Len(trace) > k * L => op.phase \in {"lc", "done"} /\ lc.self = k + 2
        /\ op.phase = "done" /\ ret.kind = "list"
             => /\ ret.list = op.out
                /\ k = Len(matched)
                /\ Len(trace) = k * L

C7_Witness ==
  /\ DoneOp("update_all")
  /\ ret.kind = "list"
  /\ Len(ret.list) = 2
  /\ Len(trace) = 12
  /\ Get(pre.data[1], "name") # Get(pre.data[2], "name")

BeforeEvents ==
  {"validate", "beforeCreate", "beforeUpdate", "beforeSave", "beforeFetch", "beforeRemove"}
AfterEvents == {"afterSave", "afterCreate", "afterUpdate", "afterFetch", "afterRemove"}

\* C8: when emit fails on an event that precedes the primitive, the
\* lifecycle method fails with that error, its primitive is never called,
\* nothing is logged after the failed event, the store is as it was when
\* the method was invoked, and the operation settles with the error.
C8_BeforeHookFails ==
  \A i \in 1..Len(trace) :
    (~trace[i].ok /\ trace[i].ev \in BeforeEvents)
    => /\ i = Len(trace)
       /\ op.phase \in {"lc", "done"}
       /\ lc.self = trace[i].rec
       /\ lc.status = "err" /\ lc.err = EmitError
       /\ \A j \in 1..Len(trace) :
            trace[j].rec = trace[i].rec => trace[j].ev \notin Primitives
       /\ data = lc.store
       /\ op.phase = "done" => ret.kind = "error" /\ ret.err = EmitError

C8_Witness ==
  /\ op.phase = "done"
  /\ trace # <<>>
  /\ ~trace[Len(trace)].ok
  /\ trace[Len(trace)].ev = "beforeSave"
  /\ ret.kind = "error" /\ ret.err = EmitError

\* the id a record had when its lifecycle method was invoked
IdAtCall ==
  IF lc.self = 1 THEN Get(Overlay(pre.rec, op.arg), "id") ELSE Get(it.items[it.pos], "id")

\* C9: when emit fails on an event that follows the primitive, the
\* operation fails with that error and nothing more is logged, but the
\* primitive's effect stays: the store keeps the mutation and the record
\* keeps the merged result; after a failed afterSave of a create the record
\* is Persisted, after a failed afterRemove its id is cleared.
C9_AfterHookFails ==
  \A i \in 1..Len(trace) :
    (~trace[i].ok /\ trace[i].ev \in AfterEvents)
    => /\ i = Len(trace)
       /\ op.phase \in {"lc", "done"}
       /\ lc.self = trace[i].rec
       /\ lc.status = "err" /\ lc.err = EmitError
       /\ op.phase = "done" => ret.kind = "error" /\ ret.err = EmitError
       /\ \E j \in 1..Len(trace) :
            trace[j].rec = trace[i].rec /\ trace[j].ev \in Primitives /\ trace[j].ok
       /\ lc.path = "create" => data = Append(lc.store, lc.pending)
       /\ lc.path = "update" => \E j \in 1..Len(data) : data[j] = lc.pending
       /\ lc.path = "remove" => \A j \in 1..Len(data) : Get(data[j], "id") # IdAtCall
       /\ lc.path \in {"create", "update", "fetch"}
            => \A k \in DOMAIN lc.pending : heap[lc.self][k] = lc.pending[k]
       /\ lc.path = "create" => Persisted(heap[lc.self])
       /\ lc.path = "remove" => "id" \in DOMAIN heap[lc.self] /\ ~Persisted(heap[lc.self])

\* C10: findOne(query) asks findIterator(query) for one item only: it
\* returns the first match in encounter order when there is one and empty
\* otherwise, and the generator never runs past its first yield; the same
\* holds for findById, findOrCreate, createOrUpdate, updateOne, removeOne,
\* updateById and removeById, which all start with findOne.
C10_FindOnePullsOnce ==
  (op.name \in FindOneOps \cup ByIdOps /\ op.phase \in {"pull", "got", "lc", "done"})
  => LET matched == Filter(pre.data, op.query)
     IN /\ it.pulls <= 1
        /\ it.pos <= 1
        /\ op.phase # "pull"
             => /\ it.pulls = 1
                /\ it.items = matched
                /\ it.pos = IF matched = <<>> THEN 0 ELSE 1
                /\ (it.cur = 0) <=> (matched = <<>>)
        /\ op.phase = "got" /\ it.cur # 0 => heap[it.cur] = build(matched[1])
        /\ op.phase \in {"lc", "done"} => it.state = "closed"
        /\ DoneOp("findOne")
             => /\ matched = <<>> => ret.kind = "empty"
                /\ matched # <<>>
                     => ret.kind = "rec" /\ ret.obj = it.cur /\ heap[ret.obj] = build(matched[1])

C10_Witness ==
  /\ DoneOp("findOne")
  /\ ret.kind = "rec"
  /\ Len(Filter(pre.data, op.query)) = 2
  /\ pre.data[1] # pre.data[2]
  /\ heap[ret.obj] = pre.data[1]
  /\ it.pulls = 1 /\ it.pos = 1

\* the ids of the stored records are pairwise different
DistinctIds(d) == \A i, j \in 1..Len(d) : i # j => Get(d[i], "id") # Get(d[j], "id")

LookupOps == ByIdOps \cup {"findOne", "updateOne", "removeOne"}

\* C12: when findIterator yields nothing, findById, updateById and
\* removeById fail with RecordNotFound, and findOne, updateOne and removeOne
\* return empty without failing; in both cases no hook is emitted, no
\* primitive or lifecycle method is invoked and the store is unchanged.
\* RecordNotFound comes from nowhere else.
C12_NotFound ==
  /\ (op.name \in LookupOps /\ op.phase \in {"got", "lc", "done"}
        /\ Filter(pre.data, op.query) = <<>>)
     => /\ op.phase # "lc"
        /\ trace = <<>>
        /\ lc = NoLc
        /\ data = pre.data
        /\ Len(heap) = 1
        /\ op.phase = "done" /\ op.name \in ByIdOps
             => ret.kind = "error" /\ ret.err = RecordNotFound
        /\ op.phase = "done" /\ op.name \notin ByIdOps => ret.kind = "empty"
  /\ ret.err = RecordNotFound
       => op.name \in ByIdOps /\ Filter(pre.data, op.query) = <<>>

C12_Witness ==
  /\ DoneOp("removeById")
  /\ pre.data = <<Row(1, 1)>>
  /\ op.query = Obj("id", 2)
  /\ ret.kind = "error" /\ ret.err = RecordNotFound
  /\ data = pre.data

\* C13: findOrCreate(query, extra).  When findOne(query) yields a record it
\* is returned as built from the stored record, no hook is emitted, no
\* lifecycle method runs and the store is unchanged.  When it yields nothing,
\* a record with the fields of extra overlaid by query (query wins) goes
\* through the create path of save(): the create hook sequence around one
\* _save call, which appends the record to the store, and the returned
\* record is Persisted.
C13_FindOrCreate ==
  (op.name = "findOrCreate" /\ op.phase \in {"lc", "done"})
  => LET matched == Filter(pre.data, op.query)
         fields == Overlay(op.arg, op.query)
     IN /\ matched # <<>>
             => /\ op.phase = "done"
                /\ ret.kind = "rec" /\ heap[ret.obj] = build(matched[1])
                /\ trace = <<>>
                /\ lc = NoLc
                /\ data = pre.data
        /\ matched = <<>>
             => /\ lc.path = "create"
                /\ IsPrefix(Names(trace), CreateTrace)
                /\ \A k \in DOMAIN fields : heap[lc.self][k] = fields[k]
                /\ Count(trace, "_save") = 0 => heap[lc.self] = fields
                /\ Count(trace, "_save") = 1
                     => data = Append(pre.data,
                                      Overlay(Obj("id", Len(pre.data) + 1), fields))
                /\ op.phase = "done" /\ ret.kind = "rec"
                     => /\ Names(trace) = CreateTrace
                        /\ ret.obj = lc.self
                        /\ Persisted(heap[ret.obj])

\* C14: createOrUpdate(query, data).  When findOne(query) yields a record,
\* update(data) runs on it: the update hook sequence around one _update
\* call, with data and nothing else merged into the record before validate.
\* When it yields nothing, a record with the fields of query overlaid by
\* data (data wins) goes through the create path of save(): the create hook
\* sequence around one _save call, which appends the record to the store,
\* and the returned record is Persisted.
C14_CreateOrUpdate ==
  (op.name = "createOrUpdate" /\ op.phase \in {"lc", "done"})
  => LET matched == Filter(pre.data, op.query)
         fields == Overlay(op.query, op.arg)
     IN /\ matched # <<>>
             => /\ lc.path = "update"
                /\ lc.self = it.cur
                /\ IsPrefix(Names(trace), UpdateTrace)
                /\ Count(trace, "afterSave") = 0
                     => heap[lc.self] = Overlay(build(matched[1]), op.arg)
                /\ Count(trace, "_save") = 0
                /\ op.phase = "done" /\ ret.kind = "rec"
                     => Names(trace) = UpdateTrace /\ ret.obj = lc.self
        /\ matched = <<>>
             => /\ lc.path = "create"
                /\ IsPrefix(Names(trace), CreateTrace)
                /\ \A k \in DOMAIN fields : heap[lc.self][k] = fields[k]
                /\ Count(trace, "_save") = 0 => heap[lc.self] = fields
                /\ Count(trace, "_save") = 1
                     => data = Append(pre.data,
                                      Overlay(Obj("id", Len(pre.data) + 1), fields))
                /\ op.phase = "done" /\ ret.kind = "rec"
                     => /\ Names(trace) = CreateTrace
                        /\ ret.obj = lc.self
                        /\ Persisted(heap[ret.obj])

\* the operations that only read
ReadOps == {"find", "findOne", "findById", "count", "findIterator", "asyncIterator"}

\* C15: find(query), findOne(query), findById(id), count(query) and the
\* iteration of the collection emit no hook, call no primitive, enter no
\* lifecycle method and leave the store, row by row, as it was at
\* invocation; every record they build is a copy of a stored row.
C15_ReadOnly ==
  op.name \in ReadOps
  => /\ trace = <<>>
     /\ lc = NoLc
     /\ data = pre.data
     /\ heap[1] = pre.rec
     /\ \A j \in 2..Len(heap) : \E i \in 1..Len(data) : heap[j] = data[i]

C15_Witness ==
  /\ DoneOp("find")
  /\ ret.kind = "list"
  /\ Len(ret.list) = 2
  /\ heap[ret.list[1]] = data[1] /\ heap[ret.list[2]] = data[2]
  /\ data[1] # data[2]
  /\ data = pre.data

\* the stored records that do not match the query, in store order
RECURSIVE Reject(_, _)
Reject(s, q) ==
  IF s = <<>> THEN <<>>
  ELSE IF isSubset(Head(s), q) THEN Reject(Tail(s), q)
       ELSE <<Head(s)>> \o Reject(Tail(s), q)

\* C16: when remove(query) completes, the store is the store at invocation
\* without the records that matched (every non-matching record is still
\* there, unchanged and in order), and the result holds one record per match
\* in encounter order, each with the matched record's fields and id cleared,
\* so New.
C16_RemoveAll ==
  (DoneOp("remove_all") /\ ret.kind = "list")
  => LET matched == Filter(pre.data, op.query)
     IN /\ data = Reject(pre.data, op.query)
        /\ Len(ret.list) = Len(matched)
        /\ \A j \in 1..Len(matched) :
             /\ heap[ret.list[j]] = setKey(build(matched[j]), "id", Undef)
             /\ isNew(heap[ret.list[j]])

\* C17: on a class with the default findIterator, creating the sequence
\* fails nothing and runs nothing, and a sequence that is held or dropped
\* without being asked never errors; the first it.next() fails with
\* NotImplemented('Model.findIterator'), and so do find, findOne and count,
\* which ask; in all of it no hook, no primitive and no change of the store.
C17_DefaultFindIterator ==
  op.name \in BaseDrains \cup {BaseOp("findIterator")}
  => /\ trace = <<>> /\ lc = NoLc /\ data = pre.data /\ Len(heap) = 1
     /\ op.phase \in {"held", "pull", "done"}
     /\ it.pulls <= 1
     /\ it.pulls = 0 => ret.kind # "error"
     /\ op.phase = "held" => it.state = "fresh" /\ it.pulls = 0 /\ ret = NoRet
     /\ op.phase = "done" /\ it.pulls = 0
          => op.name = BaseOp("findIterator") /\ ret.kind = "list" /\ ret.list = <<>>
     /\ it.pulls = 1
          => /\ op.phase = "done"
             /\ ret.kind = "error"
             /\ ret.err = NotImplemented("Model.findIterator")
     /\ op.phase = "done" /\ op.name \in BaseDrains => it.pulls = 1

C17_Witness ==
  /\ DoneOp(BaseOp("findIterator"))
  /\ it.pulls = 1
  /\ ret.kind = "error" /\ ret.err = NotImplemented("Model.findIterator")
  /\ data # <<>>

\* C18: count(query) asks findIterator(query) until it reports done, one
\* answer more than there are matches, counts the items yielded, and always
\* returns that number: the number of stored records matching the query, 0
\* when there is none, which is also the length of what find(query)
\* returns on the same store.
C18_Count ==
  /\ (op.name = "count" /\ op.phase # "idle")
     => LET matched == Filter(pre.data, op.query)
        IN /\ it.pulls <= Len(matched) + 1
           /\ it.pos = it.pulls \/ it.pos + 1 = it.pulls
           /\ Len(op.out) <= it.pos /\ it.pos <= Len(op.out) + 1
           /\ op.phase = "pull" => Len(op.out) = it.pos /\ it.state # "closed"
           /\ op.phase = "done"
                => /\ ret.kind = "count"
                   /\ ret.n = Len(matched)
                   /\ it.state = "closed"
                   /\ it.pulls = ret.n + 1
                   /\ it.pos = ret.n
  /\ (DoneOp("find"))
     => /\ ret.kind = "list"
        /\ Len(ret.list) = Len(Filter(pre.data, op.query))

C18_Witness ==
  /\ DoneOp("count")
  /\ Len(pre.data) = 2
  /\ ret.kind = "count" /\ ret.n = 1
  /\ it.pulls = 2

\* the record a lifecycle method runs on, as it is when the primitive is
\* called: the record at invocation with the patch of update(data) merged
RecAtPrimitive ==
  IF lc.self = 1 THEN Overlay(pre.rec, op.arg)
  ELSE IF op.name \in BaseMethods THEN IF lc.path = "create" THEN build(Empty) ELSE Obj("id", 1)
  ELSE IF op.name = "create" THEN build(op.arg)
  ELSE IF op.name = "findOrCreate" THEN Overlay(op.arg, op.query)
  ELSE IF op.name = "createOrUpdate" /\ it.cur = 0 THEN Overlay(op.query, op.arg)
  ELSE Overlay(build(it.items[it.pos]), op.arg)

\* C19: when the primitive of save, update, remove or fetch fails (the
\* defaults of BaseModel, which throw NotImplemented; _update of the test
\* driver on a record that is not stored), the failed call is the last
\* thing logged, the method and the operation fail with that error, the
\* events before the primitive have all been emitted and none after it, the
\* store is as it was when the method was invoked, and the record is as it
\* was when the primitive was called: a New record whose _save failed is
\* still New, a Persisted record whose _remove or _fetch failed still has
\* its id.
C19_PrimitiveFails ==
  \A i \in 1..Len(trace) :
    (trace[i].ev \in Primitives /\ ~trace[i].ok)
    => LET st == Steps(lc.path)
           n == Len(trace) - lc.pc
       IN /\ i = Len(trace)
          /\ op.phase \in {"lc", "done"}
          /\ lc.self = trace[i].rec
          /\ lc.status = "err"
          /\ lc.err \in {NotImplemented("model." \o trace[i].ev), TypeError}
          /\ op.phase = "done" => ret.kind = "error" /\ ret.err = lc.err
          /\ st[lc.pc] = trace[i].ev
          /\ n >= 0
          /\ \A j \in 1..lc.pc :
               /\ trace[n + j].ev = st[j]
               /\ trace[n + j].rec = lc.self
               /\ j < lc.pc => trace[n + j].ok /\ st[j] \in BeforeEvents
          /\ \A j \in 1..Len(trace) :
               trace[j].rec = lc.self => trace[j].ev \notin AfterEvents
          /\ data = lc.store
          /\ heap[lc.self] = RecAtPrimitive
          /\ lc.path = "create" => isNew(heap[lc.self])
          /\ lc.path \in {"remove", "fetch"} => Persisted(heap[lc.self])

C19_Witness ==
  /\ DoneOp(BaseOp("remove"))
  /\ Names(trace) = <<"beforeRemove", "_remove">>
  /\ ~trace[2].ok
  /\ ret.kind = "error" /\ ret.err = NotImplemented("model._remove")
  /\ Persisted(heap[2])

\* C20: when the lifecycle method of the j-th matched record fails during
\* update(query, data) or remove(query), the bulk operation ends there and
\* fails with that error; the j-1 records before it have run their complete
\* sequences and their mutations stay in the store (removed rows are gone,
\* updated rows carry the data); what is logged after them belongs to the
\* j-th record, and for no later match an instance is built, a hook emitted
\* or a primitive called.
C20_BulkFails ==
  (op.name \in BulkOps /\ lc.status = "err")
  => LET E == BulkTrace
         L == Len(E)
         k == Len(op.out)
         matched == Filter(pre.data, op.query)
     IN /\ op.phase \in {"lc", "done"}
        /\ op.phase = "done" => ret.kind = "error" /\ ret.err = lc.err /\ it.state = "closed"
        /\ k < Len(matched)
        /\ lc.self = k + 2
        /\ it.pos = k + 1
        /\ Len(heap) = k + 2
        /\ Len(trace) >= k * L /\ Len(trace) < (k + 1) * L + 1
        /\ \A i \in 1..Len(trace) :
             /\ trace[i].ev = E[((i - 1) % L) + 1]
             /\ trace[i].rec = ((i - 1) \div L) + 2
             /\ i <= k * L => trace[i].ok
        /\ \A i \in 1..k :
             IF op.name = "remove_all"
             THEN \A r \in 1..Len(data) : Get(data[r], "id") # Get(matched[i], "id")
             ELSE \E r \in 1..Len(data) :
                    /\ Get(data[r], "id") = Get(matched[i], "id")
                    /\ isSubset(data[r], op.arg)

C20_Witness ==
  /\ DoneOp("remove_all")
  /\ ret.kind = "error" /\ ret.err = EmitError
  /\ Len(op.out) = 1
  /\ Len(Filter(pre.data, op.query)) = 2
  /\ Names(trace) = <<"beforeRemove", "_remove", "afterRemove", "beforeRemove">>
  /\ data = <<pre.data[2]>>

\* the primitives that act on a stored record
StoredPrimitives == {"_fetch", "_update", "_remove"}

\* C21: _fetch, _update and _remove are only called on a record that is
\* Persisted when the call is made: in the state in which such a call is the
\* last thing logged (the record has not been touched since), the record it
\* was made on has its id set; for every sequence of operations and every
\* patch of update, a patch with the id field included.
C21_PrimitiveOnPersisted ==
  (trace # <<>> /\ trace[Len(trace)].ev \in StoredPrimitives)
  => Persisted(heap[trace[Len(trace)].rec])

\* C22: when update(patch) on a Persisted record fails in validate,
\* beforeUpdate or beforeSave, the record holds the patch (patch values over
\* the old fields) and keeps it, while the store is as it was at invocation;
\* the record agrees again with its stored row after a fetch() or an
\* update() that succeeds.
C22_FailedUpdateKeepsPatch ==
  /\ (/\ op.name = "update" /\ Persisted(pre.rec)
      /\ trace # <<>> /\ ~trace[Len(trace)].ok
      /\ trace[Len(trace)].ev \in BeforeEvents)
     => /\ lc.status = "err" /\ lc.err = EmitError
        /\ heap[1] = Overlay(pre.rec, op.arg)
        /\ \A k \in DOMAIN op.arg : heap[1][k] = op.arg[k]
        /\ data = pre.data
        /\ Count(trace, "_update") = 0
        /\ op.phase = "done" => ret.kind = "error" /\ ret.err = EmitError
  /\ (op.name \in {"update", "fetch"} /\ op.phase = "done" /\ ret.kind = "rec"
        /\ SameId(data, heap[1]) # {})
     => LET row == Model_fetch(data, heap[1])
        IN \A k \in DOMAIN row : heap[1][k] = row[k]

C22_Witness ==
  /\ DoneOp("update")
  /\ pre.rec = Row(1, 1)
  /\ op.arg = Obj("name", 2)
  /\ Names(trace) = <<"validate", "beforeUpdate", "beforeSave">>
  /\ ret.kind = "error" /\ ret.err = EmitError
  /\ heap[1] = Row(1, 2)
  /\ data = <<Row(1, 1)>>

\* C23: findOrCreate calls with one query, run one after another.  From a
\* store with no match for the query, a first call in which no hook fails
\* returns a record and has added exactly one record to the store, the only
\* one that matches the query; every later call returns a record with that
\* record's id, emits no hook, runs no lifecycle method and leaves the store
\* unchanged, with still one record matching the query.
C23_FindOrCreateIdempotent ==
  /\ (/\ DoneOp("findOrCreate")
      /\ Filter(pre.data, op.query) = <<>>
      /\ \A i \in 1..Len(trace) : trace[i].ev \notin Primitives => trace[i].ok)
     => /\ ret.kind = "rec"
        /\ Len(data) = Len(pre.data) + 1
        /\ Len(Filter(data, op.query)) = 1
        /\ Get(heap[ret.obj], "id") = Get(Filter(data, op.query)[1], "id")
  /\ (/\ op.name = "findOrCreate" /\ op.phase \in {"lc", "done"}
      /\ pre.foc.set /\ pre.foc.query = op.query)
     => /\ op.phase = "done"
        /\ ret.kind = "rec"
        /\ Get(heap[ret.obj], "id") = pre.foc.id
        /\ trace = <<>>
        /\ lc = NoLc
        /\ data = pre.data
        /\ Len(Filter(data, op.query)) = 1

\* C24: save() chooses between the create path and the update path once, when
\* it is invoked, and never again after a suspension. Every save() invoked on
\* the New record before any save() in flight on it has merged the result of
\* _save runs the create path: the statements it runs are those of the create
\* path in order, also when another call has made the record Persisted
\* meanwhile; when all those calls have returned, each has emitted the whole
\* create sequence, _save has run once for each and the store has one row
\* more for each.
Racing == {c \in 1..Len(calls) : calls[c].racing}
C24_RoutingAtInvocation ==
  /\ \A c \in Racing :
       /\ calls[c].path = "create"
       /\ IsPrefix(calls[c].log, CreateTrace)
       /\ calls[c].status = "ok" => calls[c].log = CreateTrace
  /\ (\A c \in Racing : calls[c].status = "ok")
       => /\ Count(trace, "_save") = Cardinality(Racing)
          /\ Len(data) = Len(pre.data) + Cardinality(Racing)
          /\ \A e \in {"validate", "beforeCreate", "beforeSave", "afterSave", "afterCreate"} :
               Count(trace, e) >= Cardinality(Racing)

\* two save() calls on the New record, the second invoked before the first
\* merged, the first merged before the second reached _save: both returned,
\* both ran the create path, _save ran twice
C24_Witness ==
  /\ Len(calls) = 2 /\ Racing = {1, 2}
  /\ calls[1].status = "ok" /\ calls[2].status = "ok"
  /\ calls[1].log = CreateTrace /\ calls[2].log = CreateTrace
  /\ Count(trace, "_save") = 2
  /\ Len(data) = Len(pre.data) + 2
  /\ \E i, j \in 1..Len(trace) :
       i < j /\ trace[i].ev = "afterSave" /\ trace[j].ev = "_save"

====
